---- MODULE Spec2Model ----
(***************************************************************************)
(* A model of the metric calculators of sqm_project: the brace-block       *)
(* scanner and call-graph extraction of information_flow.py, the           *)
(* calculators of halstead.py, oo_metrics.py, size_metrics.py and          *)
(* testing_metrics.py, and the aggregation loop of main.py.                *)
(*                                                                         *)
(* Source text is a sequence of one-character strings, indexed from 0 as   *)
(* in Python through CharAt.  Each calculator has its own specification    *)
(* (SpecScan, SpecFan, ...): Init draws the calculator's input from a      *)
(* bounded set and the actions run the calculator.                         *)
(***************************************************************************)
EXTENDS Integers, Sequences, FiniteSets

VARIABLES
    sc_code,      \* _extract_brace_block: the argument code
    sc_start,     \* _extract_brace_block: the argument start_index
    sc_res,       \* _extract_brace_block: what the call produced, NoResult before it
    fan_code,     \* compute_fan_in_out: the argument code, a sequence of tokens
    fan_pc,       \* compute_fan_in_out: "find", "graph" or "done"
    functions,    \* compute_fan_in_out: name -> [body, start, endpos]
    info_flow,    \* compute_fan_in_out: name -> [fan_in, fan_out, information_flow]
    oo_decls,     \* compute_oo_metrics: the matches of class_re, <<name, parent>> each
    oo_pc,        \* compute_oo_metrics: "scan", "loop", "walk" or "done"
    classes,      \* compute_oo_metrics: the keys of classes, in insertion order
    parents,      \* compute_oo_metrics: name -> parent
    oo_todo,      \* the classes the loop of line 61 has still to visit
    oo_root,      \* the class c of the loop of line 61
    oo_cls,       \* depth_of: the argument cls of the current invocation
    oo_seen,      \* depth_of: the set seen
    oo_acc,       \* depth_of: the invocations that wait to add 1 to their callee's result
    oo_depth,     \* the value d of line 63, for each class visited
    oo_errors,    \* the classes whose walk raised (line 66)
    max_depth,    \* compute_oo_metrics: max_depth
    operators,    \* halstead_metrics: the argument operators
    operands,     \* halstead_metrics: the argument operands
    hal_res,      \* halstead_metrics: the dict returned, NoResult before the call
    file_paths,   \* compute_testing_metrics: the argument file_paths
    tm_i,         \* compute_testing_metrics: the paths the loop of line 23 has taken
    test_count,   \* compute_testing_metrics: test_count
    src_count,    \* compute_testing_metrics: src_count
    tm_res,       \* compute_testing_metrics: the dict returned, NoResult before
    sz_lines,     \* compute_size_metrics: lines, code.splitlines()
    sz_i,         \* compute_size_metrics: the lines the loop of line 19 has taken
    in_block,     \* compute_size_metrics: in_block
    blank_lines,  \* compute_size_metrics: blank_lines
    comment_lines, \* compute_size_metrics: comment_lines
    total_len,    \* compute_size_metrics: total_len
    sz_res,       \* compute_size_metrics: the dict returned, NoResult before
    directories,  \* analyze_project: the argument, each directory as get_js_files lists it
    all_files,    \* analyze_project: all_files
    ap_pc,        \* analyze_project: "discover", "loop", "aggregate" or "done"
    ap_i,         \* analyze_project: the files the loop of line 41 has taken
    file_count,   \* analyze_project: file_count
    all_ops,      \* analyze_project: all_ops
    all_oprs,     \* analyze_project: all_oprs
    total_live_vars,        \* analyze_project: total_live_vars
    total_avg_live_metric,  \* analyze_project: total_avg_live_metric
    info_flow_values,       \* analyze_project: info_flow_values
    fan_in_values,          \* analyze_project: fan_in_values
    fan_out_values,         \* analyze_project: fan_out_values
    size_totals,  \* analyze_project: total_loc, total_sloc, total_comments, total_blank
                  \* and total_avg_line_length, Unbound while they have no value
    warnings,     \* the files line 94 reported, in order
    info_flow_results,      \* analyze_project: info_flow_results
    ap_out        \* analyze_project: how the call ended, NoResult before

scanVars == <<sc_code, sc_start, sc_res>>
fanVars == <<fan_code, fan_pc, functions, info_flow>>
ooVars == <<oo_decls, oo_pc, classes, parents, oo_todo, oo_root, oo_cls, oo_seen,
            oo_acc, oo_depth, oo_errors, max_depth>>
halVars == <<operators, operands, hal_res>>
tmVars == <<file_paths, tm_i, test_count, src_count, tm_res>>
szVars == <<sz_lines, sz_i, in_block, blank_lines, comment_lines, total_len, sz_res>>
apVars == <<directories, all_files, ap_pc, ap_i, file_count, all_ops, all_oprs,
            total_live_vars, total_avg_live_metric, info_flow_values, fan_in_values,
            fan_out_values, size_totals, warnings, info_flow_results, ap_out>>
vars == <<scanVars, fanVars, ooVars, halVars, tmVars, szVars, apVars>>

NoResult == [kind |-> "none"]

Max(a, b) == IF a >= b THEN a ELSE b
Min(a, b) == IF a <= b THEN a ELSE b

(***************************************************************************)
(* Bounds of the model.                                                    *)
(***************************************************************************)
MaxLen == 6
MaxStart == 1
MaxDecls == 2
MaxClassDecls == 3
\* Stands for the interpreter's recursion limit, which ends a walk that never
\* stops with a RecursionError.
RecursionLimit == 6
MaxTokens == 3
MaxPaths == 4
MaxLines == 3
MaxDirs == 2
MaxFiles == 2

(***************************************************************************)
(* Characters.  The scanner tells apart the braces, the three quote        *)
(* characters (which it treats alike; one of them is in the alphabet), the *)
(* backslash, the two characters comments are made of and the line break;  *)
(* "*" and "/" also stand for ordinary text.                               *)
(***************************************************************************)
LBrace == "{"
RBrace == "}"
DQuote == "\""
SQuote == "'"
BackSl == "\\"
Slash == "/"
Star == "*"
Newline == "\n"
\* The template-literal quote; the character itself cannot be written in a string here.
Backtick == "backtick"

Alphabet == {LBrace, RBrace, DQuote, BackSl, Slash, Star, Newline}

Texts == UNION {[1..k -> Alphabet] : k \in 0..MaxLen}

(***************************************************************************)
(* Python string primitives on 0-based offsets.                            *)
(***************************************************************************)
IndexError == "IndexError"

\* code[i] for i >= 0: the character, or IndexError when i is out of range.
CharAt(code, i) == IF i >= 0 /\ i < Len(code) THEN code[i + 1] ELSE IndexError

\* code[a:b] for 0 <= a: slices clamp to the text and never raise.
Slice(code, a, b) ==
    LET hi == Min(b, Len(code))
    IN  IF a >= hi THEN <<>> ELSE [k \in 1..(hi - a) |-> code[a + k]]

\* code[i:i+2] == two, for a two-character string two.
TwoAt(code, i, two) == Slice(code, i, i + 2) = two

\* code.find(two, from): the least offset >= from where two starts, or -1.
Find2(code, two, from) ==
    LET hits == {j \in from..(Len(code) - 2) : TwoAt(code, j, two)}
    IN  IF hits = {} THEN -1 ELSE CHOOSE j \in hits : \A k \in hits : j <= k

\* code.find(c, from) for a single character c.
Find1(code, c, from) ==
    LET hits == {j \in from..(Len(code) - 1) : code[j + 1] = c}
    IN  IF hits = {} THEN -1 ELSE CHOOSE j \in hits : \A k \in hits : j <= k

(***************************************************************************)
(* The calculators a specification does not run stay idle.                 *)
(***************************************************************************)
EmptyMap == [x \in {} |-> 0]

IdleScan == sc_code = <<>> /\ sc_start = 0 /\ sc_res = NoResult
IdleFan == fan_code = <<>> /\ fan_pc = "idle" /\ functions = EmptyMap /\ info_flow = EmptyMap

IdleOO ==
    /\ oo_decls = <<>> /\ oo_pc = "idle" /\ classes = <<>> /\ parents = EmptyMap
    /\ oo_todo = <<>> /\ oo_root = "" /\ oo_cls = "" /\ oo_seen = {} /\ oo_acc = 0
    /\ oo_depth = EmptyMap /\ oo_errors = {} /\ max_depth = 0

IdleHal == operators = <<>> /\ operands = <<>> /\ hal_res = NoResult
IdleTm ==
    /\ file_paths = <<>> /\ tm_i = 0 /\ test_count = 0 /\ src_count = 0
    /\ tm_res = NoResult
IdleSz ==
    /\ sz_lines = <<>> /\ sz_i = 0 /\ in_block = FALSE /\ blank_lines = 0
    /\ comment_lines = 0 /\ total_len = 0 /\ sz_res = NoResult

Unbound == [kind |-> "unbound"]

IdleAp ==
    /\ directories = <<>> /\ all_files = <<>> /\ ap_pc = "idle" /\ ap_i = 0
    /\ file_count = 0 /\ all_ops = <<>> /\ all_oprs = <<>>
    /\ total_live_vars = 0 /\ total_avg_live_metric = 0
    /\ info_flow_values = <<>> /\ fan_in_values = <<>> /\ fan_out_values = <<>>
    /\ size_totals = Unbound /\ warnings = <<>> /\ info_flow_results = Unbound
    /\ ap_out = NoResult

(***************************************************************************)
(* information_flow.py: _extract_brace_block.                              *)
(***************************************************************************)
Returned(body, end) == [kind |-> "return", body |-> body, end |-> end]
Raised(what) == [kind |-> "raise", error |-> what]

IsQuote(c) == c \in {DQuote, SQuote, Backtick}

\* Line 12: `if i >= n or code[i] != '{'`, evaluated left to right: "noop" when it
\* holds, "scan" when it does not, IndexError when code[i] is read out of range.
StartGuardOffByOne(code, i) ==
    IF i > Len(code) THEN "noop"
    ELSE IF CharAt(code, i) = IndexError THEN IndexError
    ELSE IF CharAt(code, i) # LBrace THEN "noop"
    ELSE "scan"

StartGuard(code, i) ==
    IF i >= Len(code) THEN "noop"
    ELSE IF CharAt(code, i) = IndexError THEN IndexError
    ELSE IF CharAt(code, i) # LBrace THEN "noop"
    ELSE "scan"

\* Line 51: a closing brace is the matching one when no inner block is open.
IsMatchingCloseAnyDepth(depth) == TRUE

IsMatchingClose(depth) == depth = 0

\* Line 26: a backslash inside a literal consumes two characters.
AfterEscape(i) == i + 2

\* Lines 24-31: the inner loop; returns the offset the outer loop resumes at.
RECURSIVE SkipLiteral(_, _, _)
SkipLiteral(code, i, quote) ==
    IF i >= Len(code) THEN i
    ELSE IF CharAt(code, i) = BackSl THEN SkipLiteral(code, AfterEscape(i), quote)
    ELSE IF CharAt(code, i) = quote THEN i + 1
    ELSE SkipLiteral(code, i + 1, quote)

\* Lines 18-57: the outer loop from offset i with the nesting depth so far.
RECURSIVE ScanFrom(_, _, _, _)
ScanFrom(code, i0, i, depth) ==
    LET n == Len(code)
        c == CharAt(code, i)
    IN  IF i >= n THEN Returned(Slice(code, i0 + 1, n), n)
        ELSE IF c = IndexError THEN Raised(IndexError)
        ELSE IF IsQuote(c) THEN ScanFrom(code, i0, SkipLiteral(code, i + 1, c), depth)
        ELSE IF TwoAt(code, i, <<Slash, Star>>) THEN
            LET j == Find2(code, <<Star, Slash>>, i + 2)
            IN  IF j = -1 THEN Returned(Slice(code, i0 + 1, n), n)
                ELSE ScanFrom(code, i0, j + 2, depth)
        ELSE IF TwoAt(code, i, <<Slash, Slash>>) THEN
            LET j == Find1(code, Newline, i + 2)
            IN  IF j = -1 THEN Returned(Slice(code, i0 + 1, n), n)
                ELSE ScanFrom(code, i0, j + 1, depth)
        ELSE IF c = LBrace THEN ScanFrom(code, i0, i + 1, depth + 1)
        ELSE IF c = RBrace THEN
            IF IsMatchingClose(depth) THEN Returned(Slice(code, i0 + 1, i), i + 1)
            ELSE ScanFrom(code, i0, i + 1, depth - 1)
        ELSE ScanFrom(code, i0, i + 1, depth)

\* Lines 5-57.
ExtractBraceBlock(code, start_index) ==
    LET g == StartGuard(code, start_index)
    IN  IF g = IndexError THEN Raised(IndexError)
        ELSE IF g = "noop" THEN Returned(<<>>, start_index)
        ELSE ScanFrom(code, start_index, start_index + 1, 0)

InitScan ==
    /\ sc_code \in Texts
    /\ sc_start \in 0..Min(Len(sc_code) + 1, MaxStart)
    /\ sc_res = NoResult
    /\ IdleFan /\ IdleOO /\ IdleHal /\ IdleTm /\ IdleSz /\ IdleAp

CallExtractBraceBlock ==
    /\ sc_res = NoResult
    /\ sc_res' = ExtractBraceBlock(sc_code, sc_start)
    /\ UNCHANGED <<sc_code, sc_start, fanVars, ooVars, halVars, tmVars, szVars, apVars>>

NextScan == CallExtractBraceBlock

SpecScan == InitScan /\ [][NextScan]_vars

(***************************************************************************)
(* The lexical structure the scanner is meant to respect, one character at *)
(* a time: which characters of a text are code, and which lie inside a     *)
(* string or template literal, a block comment or a line comment.          *)
(***************************************************************************)
\* The lexer state after reading c in state <<mode, quote>>, and whether c was
\* read as code (a brace read as code counts for nesting).
LexNext(mode, quote, c) ==
    LET asCode ==
            IF c \in {DQuote, SQuote, Backtick} THEN <<"str", c, FALSE>>
            ELSE IF c = Slash THEN <<"slash", quote, TRUE>>
            ELSE <<"code", quote, TRUE>>
    IN  CASE mode = "str" ->
                IF c = BackSl THEN <<"esc", quote, FALSE>>
                ELSE IF c = quote THEN <<"code", quote, FALSE>>
                ELSE <<"str", quote, FALSE>>
          [] mode = "esc" -> <<"str", quote, FALSE>>
          [] mode = "block" ->
                IF c = Star THEN <<"blockstar", quote, FALSE>>
                ELSE <<"block", quote, FALSE>>
          [] mode = "blockstar" ->
                IF c = Slash THEN <<"code", quote, FALSE>>
                ELSE IF c = Star THEN <<"blockstar", quote, FALSE>>
                ELSE <<"block", quote, FALSE>>
          [] mode = "line" ->
                IF c = Newline THEN <<"code", quote, FALSE>>
                ELSE <<"line", quote, FALSE>>
          [] mode = "slash" ->
                IF c = Star THEN <<"block", quote, FALSE>>
                ELSE IF c = Slash THEN <<"line", quote, FALSE>>
                ELSE asCode
          [] OTHER -> asCode

\* The offset of the first closing brace at or after i that is read as code at
\* nesting depth 0, or -1 when the text has none.
RECURSIVE MatchingClose(_, _, _, _, _)
MatchingClose(text, i, mode, quote, depth) ==
    IF i >= Len(text) THEN -1
    ELSE LET c == text[i + 1]
             nx == LexNext(mode, quote, c)
         IN  IF nx[3] /\ c = RBrace /\ depth = 0 THEN i
             ELSE MatchingClose(text, i + 1, nx[1], nx[2],
                                IF nx[3] /\ c = LBrace THEN depth + 1
                                ELSE IF nx[3] /\ c = RBrace THEN depth - 1
                                ELSE depth)

\* The nesting depth at the end of text read from its start, or -1 when a closing
\* brace read as code has no opening one before it.
RECURSIVE CodeBraceBalance(_, _, _, _, _)
CodeBraceBalance(text, i, mode, quote, depth) ==
    IF i >= Len(text) THEN depth
    ELSE LET c == text[i + 1]
             nx == LexNext(mode, quote, c)
         IN  IF nx[3] /\ c = RBrace /\ depth = 0 THEN -1
             ELSE CodeBraceBalance(text, i + 1, nx[1], nx[2],
                                   IF nx[3] /\ c = LBrace THEN depth + 1
                                   ELSE IF nx[3] /\ c = RBrace THEN depth - 1
                                   ELSE depth)

CountOf(text, c) == Cardinality({k \in 1..Len(text) : text[k] = c})

sc_match == MatchingClose(sc_code, sc_start + 1, "code", DQuote, 0)

C2_NeverRaisesEndBounded ==
    sc_res # NoResult
        => /\ sc_res.kind = "return"
           /\ sc_res.end <= Max(Len(sc_code), sc_start)
           /\ (sc_start <= Len(sc_code) => sc_res.end <= Len(sc_code))
           /\ (CharAt(sc_code, sc_start) # LBrace => sc_res = Returned(<<>>, sc_start))

\* C2 happens: the call was made on a block that is never closed because a literal
\* holding its '}' is never terminated.
C2_Witness ==
    /\ sc_res # NoResult
    /\ CharAt(sc_code, sc_start) = LBrace
    /\ sc_match = -1
    /\ sc_res.kind = "return"
    /\ sc_res.end = Len(sc_code)
    /\ CountOf(sc_res.body, DQuote) = 1
    /\ CountOf(sc_res.body, RBrace) > 0

\* C2 as stated: the call never raises, its end offset is <= len(code) for every
\* start offset, and it returns ("", start_index) when code[start_index] is not '{'.
C2_AsStated ==
    sc_res # NoResult
        => /\ sc_res.kind = "return"
           /\ sc_res.end <= Len(sc_code)
           /\ (CharAt(sc_code, sc_start) # LBrace => sc_res = Returned(<<>>, sc_start))

(***************************************************************************)
(* information_flow.py: compute_fan_in_out.                                *)
(*                                                                         *)
(* The text is a sequence of tokens: the braces, and one token for each    *)
(* piece of text a regular expression of the function reads as a unit (a   *)
(* declaration header up to its brace, the "module." prefix, a call).      *)
(* Offsets are token offsets; they order the matches as character offsets  *)
(* do.                                                                     *)
(***************************************************************************)
DeclNames == {"f", "g"}

TokFunction == [n \in DeclNames |-> "function " \o n \o "()"]
TokExports == [n \in DeclNames |-> "exports." \o n \o "=()=>"]
TokConst == [n \in DeclNames |-> "const " \o n \o "=()=>"]
TokModule == "module."

Range(f) == {f[x] : x \in DOMAIN f}

\* group(1) of a declaration header.
HeaderName(t) ==
    CHOOSE n \in DeclNames : t \in {TokFunction[n], TokExports[n], TokConst[n]}

NoMatch == [name |-> "", start |-> -1, end |-> -1]

\* Lines 80-83: whether pattern pat (1..4) matches at offset p, and the match:
\* its group(1), start() and end().  Every pattern ends with the opening brace.
MatchAt(pat, code, p) ==
    LET hdr == CASE pat = 1 -> Range(TokFunction)
                 [] pat = 4 -> Range(TokConst)
                 [] OTHER -> Range(TokExports)
    IN  IF pat = 3
        THEN IF /\ CharAt(code, p) = TokModule
                /\ CharAt(code, p + 1) \in hdr
                /\ CharAt(code, p + 2) = LBrace
             THEN [name |-> HeaderName(CharAt(code, p + 1)), start |-> p, end |-> p + 3]
             ELSE NoMatch
        ELSE IF CharAt(code, p) \in hdr /\ CharAt(code, p + 1) = LBrace
             THEN [name |-> HeaderName(CharAt(code, p)), start |-> p, end |-> p + 2]
             ELSE NoMatch

\* Line 90: re.finditer(pat, code), the non-overlapping matches from left to right.
RECURSIVE FindIter(_, _, _)
FindIter(pat, code, from) ==
    IF from >= Len(code) THEN <<>>
    ELSE LET m == MatchAt(pat, code, from)
         IN  IF m = NoMatch THEN FindIter(pat, code, from + 1)
             ELSE <<m>> \o FindIter(pat, code, m.end)

\* Line 95: whether the match replaces what functions holds for its name.
ReplacesEntryFirstSeen(fns, name, start) == name \notin DOMAIN fns

ReplacesEntry(fns, name, start) == name \notin DOMAIN fns \/ start < fns[name].start

\* Lines 91-96: the loop body for one match.
AddMatch(fns, code, m) ==
    LET blk == ExtractBraceBlock(code, m.end - 1)
    IN  IF ReplacesEntry(fns, m.name, m.start)
        THEN [x \in DOMAIN fns \cup {m.name} |->
                 IF x = m.name
                 THEN [body |-> blk.body, start |-> m.start, endpos |-> blk.end]
                 ELSE fns[x]]
        ELSE fns

\* Line 90: the inner loop over the matches of one pattern.
RECURSIVE AddMatches(_, _, _)
AddMatches(fns, code, ms) ==
    IF ms = <<>> THEN fns ELSE AddMatches(AddMatch(fns, code, Head(ms)), code, Tail(ms))

\* Lines 87-96: the outer loop over the four patterns, in their order.
RECURSIVE FindFunctions(_, _, _)
FindFunctions(fns, code, pat) ==
    IF pat > 4 THEN fns
    ELSE FindFunctions(AddMatches(fns, code, FindIter(pat, code, 0)), code, pat + 1)

\* Line 105.
ignore_names ==
    {"if", "for", "while", "switch", "catch", "return", "new",
     "console", "Math", "Object", "Array"}

\* Line 101: group(2) of method_call_re on one token, "" when it does not match.
MethodCallee(t) == IF t = "o.g(" THEN "g" ELSE ""

\* Line 102: group(1) of func_call_re on one token, "" when it does not match.  The
\* name before the parenthesis of a call, of a method call and of a function
\* declaration all match.
FuncCallee(t) ==
    CASE t = "f(" -> "f"
      [] t = "g(" -> "g"
      [] t = "h(" -> "h"
      [] t = "if(" -> "if"
      [] t = "o.g(" -> "g"
      [] t \in Range(TokFunction) -> HeaderName(t)
      [] OTHER -> ""

\* Lines 111 and 117: whether a matched name is added to the caller's callees.
IsCountedCalleeWithSelf(callee, name) == callee \notin ignore_names

IsCountedCallee(callee, name) == callee # name /\ callee \notin ignore_names

\* Lines 109-118: the callees of one function, match by match.
RECURSIVE CalleesFrom(_, _, _, _)
CalleesFrom(name, body, k, method) ==
    IF k > Len(body) THEN {}
    ELSE LET callee == IF method THEN MethodCallee(body[k]) ELSE FuncCallee(body[k])
         IN  (IF callee # "" /\ IsCountedCallee(callee, name) THEN {callee} ELSE {})
                 \cup CalleesFrom(name, body, k + 1, method)

NameToCallees(fns) ==
    [name \in DOMAIN fns |->
        CalleesFrom(name, fns[name].body, 1, TRUE)
            \cup CalleesFrom(name, fns[name].body, 1, FALSE)]

\* Lines 123-126: fan_in[callee], one increment for each caller that holds it.
RECURSIVE CountCallers(_, _, _)
CountCallers(callee, callers, n2c) ==
    IF callers = {} THEN 0
    ELSE LET c == CHOOSE x \in callers : TRUE
         IN  (IF callee \in n2c[c] THEN 1 ELSE 0)
                 + CountCallers(callee, callers \ {c}, n2c)

\* Line 141: x ** 2.
Square(x) == x * x

\* Lines 98-144.
BuildInfoFlow(fns) ==
    LET n2c == NameToCallees(fns)
    IN  [name \in DOMAIN fns |->
            LET fi == CountCallers(name, DOMAIN fns, n2c)
                fo == Cardinality(n2c[name])
            IN  [fan_in |-> fi, fan_out |-> fo, information_flow |-> Square(fi * fo)]]

\* The texts: up to MaxDecls declarations one after the other, each a header of one
\* of the four shapes, a brace, calls and the closing brace.
Header(pat, name) ==
    CASE pat = 1 -> <<TokFunction[name]>>
      [] pat = 2 -> <<TokExports[name]>>
      [] pat = 3 -> <<TokModule, TokExports[name]>>
      [] OTHER -> <<TokConst[name]>>

BodyPool ==
    { <<>>, <<"f(">>, <<"f(", "g(">>, <<"if(", "o.g(">>, <<"h(", "g(", "g(">> }

Decls == (1..4) \X DeclNames \X BodyPool

RECURSIVE Flatten(_)
Flatten(ds) ==
    IF ds = <<>> THEN <<>>
    ELSE Header(Head(ds)[1], Head(ds)[2]) \o <<LBrace>> \o Head(ds)[3] \o <<RBrace>>
             \o Flatten(Tail(ds))

InitFan ==
    /\ \E k \in 0..MaxDecls : \E ds \in [1..k -> Decls] : fan_code = Flatten(ds)
    /\ fan_pc = "find"
    /\ functions = EmptyMap
    /\ info_flow = EmptyMap
    /\ IdleScan /\ IdleOO /\ IdleHal /\ IdleTm /\ IdleSz /\ IdleAp

\* Lines 87-96.
FindFunctionsStep ==
    /\ fan_pc = "find"
    /\ functions' = FindFunctions(EmptyMap, fan_code, 1)
    /\ fan_pc' = "graph"
    /\ UNCHANGED <<fan_code, info_flow, scanVars, ooVars, halVars, tmVars, szVars, apVars>>

\* Lines 97-144.
BuildGraphStep ==
    /\ fan_pc = "graph"
    /\ info_flow' = BuildInfoFlow(functions)
    /\ fan_pc' = "done"
    /\ UNCHANGED <<fan_code, functions, scanVars, ooVars, halVars, tmVars, szVars, apVars>>

NextFan == FindFunctionsStep \/ BuildGraphStep

SpecFan == InitFan /\ [][NextFan]_vars

\* Every match of every pattern in a text, with the pattern that made it.
AllMatches(code) ==
    {x \in {[pat |-> pat, m |-> MatchAt(pat, code, p)] :
                pat \in 1..4, p \in 0..(Len(code) - 1)} : x.m # NoMatch}

MatchesOf(code, name) == {x \in AllMatches(code) : x.m.name = name}

\* C5: the entry functions keeps for a name is the match of that name with the
\* smallest start offset, whichever pattern made it, and its body and end are
\* those of the block scanned from that match's opening brace.
C5_EarliestMatchKept ==
    fan_pc \in {"graph", "done"}
        => LET all == AllMatches(fan_code)
           IN  /\ DOMAIN functions = {x.m.name : x \in all}
               /\ \A name \in DOMAIN functions :
                    LET mine == {x \in all : x.m.name = name}
                        first == CHOOSE x \in mine :
                                     \A y \in mine : x.m.start <= y.m.start
                        blk == ExtractBraceBlock(fan_code, first.m.end - 1)
                    IN  /\ \A y \in mine : y = first \/ first.m.start < y.m.start
                        /\ functions[name].start = first.m.start
                        /\ functions[name].body = blk.body
                        /\ functions[name].endpos = blk.end

\* C5 happens: a name was matched twice, the match with the smaller start offset by
\* the pattern applied later, and the two blocks differ.
C5_Witness ==
    /\ fan_pc = "graph"
    /\ \E name \in DOMAIN functions :
        \E x, y \in MatchesOf(fan_code, name) :
            /\ x.pat < y.pat
            /\ y.m.start < x.m.start
            /\ ExtractBraceBlock(fan_code, x.m.end - 1).body
                   # ExtractBraceBlock(fan_code, y.m.end - 1).body

\* The names a body calls: those before the parenthesis of a call token or of a
\* nested function declaration.
BodyCallNames(body) ==
    {n \in {"f", "g", "h", "if"} :
        \E k \in 1..Len(body) :
            \/ body[k] = n \o "("
            \/ body[k] = "o." \o n \o "("
            \/ body[k] = "function " \o n \o "()"}

CalleeSet(name) == (BodyCallNames(functions[name].body) \ {name}) \ ignore_names

\* C6: for every reported function, fan_out is the number of distinct names its body
\* calls other than itself and the ignore set, fan_in is the number of other
\* detected functions whose callee set holds it, and information_flow is
\* (fan_in * fan_out)^2.
C6_FanInOut ==
    fan_pc = "done"
        => /\ DOMAIN info_flow = DOMAIN functions
           /\ \A name \in DOMAIN info_flow :
                /\ info_flow[name].fan_out = Cardinality(CalleeSet(name))
                /\ info_flow[name].fan_in
                       = Cardinality({g \in DOMAIN functions \ {name} :
                                          name \in CalleeSet(g)})
                /\ info_flow[name].information_flow
                       = info_flow[name].fan_in * info_flow[name].fan_out
                           * info_flow[name].fan_in * info_flow[name].fan_out

\* C6 happens: a function that calls itself and another function, and is called by
\* that one, is reported with a positive information flow.
C6_Witness ==
    /\ fan_pc = "done"
    /\ \E name \in DOMAIN info_flow :
        /\ name \in BodyCallNames(functions[name].body)
        /\ info_flow[name].fan_in = 1
        /\ info_flow[name].fan_out = 1
        /\ info_flow[name].information_flow = 1

(***************************************************************************)
(* oo_metrics.py: compute_oo_metrics, the class table and the inheritance  *)
(* depth walk.  A match of class_re is <<name, parent>>, parent None when  *)
(* the declaration has no extends clause.                                  *)
(***************************************************************************)
None == "None"
ClassNames == {"A", "B", "C"}
\* A parent is any class name; the file need not declare it.
ParentNames == ClassNames

ClassDecls == ClassNames \X (ParentNames \cup {None})

\* Lines 37-42: classes and parents after the matches ds, in their order.
RECURSIVE ClassOrder(_)
ClassOrder(ds) ==
    IF ds = <<>> THEN <<>>
    ELSE LET before == ClassOrder(SubSeq(ds, 1, Len(ds) - 1))
             name == ds[Len(ds)][1]
         IN  IF \E k \in 1..Len(before) : before[k] = name THEN before
             ELSE Append(before, name)

RECURSIVE ParentMap(_)
ParentMap(ds) ==
    IF ds = <<>> THEN EmptyMap
    ELSE LET before == ParentMap(SubSeq(ds, 1, Len(ds) - 1))
             name == ds[Len(ds)][1]
             parent == ds[Len(ds)][2]
         IN  IF parent # None
             THEN [x \in DOMAIN before \cup {name} |->
                      IF x = name THEN parent ELSE before[x]]
             ELSE before

\* Line 55: parents.get(cls).
ParentsGet(cls) == IF cls \in DOMAIN parents THEN parents[cls] ELSE None

\* Line 52: the visited-set guard.
AlreadySeenNever(cls, seen) == FALSE

AlreadySeen(cls, seen) == cls \in seen

\* Line 56: the walk ends at a class without parent or that is its own parent.
IsRoot(cls, parent) == parent = None \/ parent = cls

InitOO ==
    /\ \E k \in 0..MaxClassDecls : oo_decls \in [1..k -> ClassDecls]
    /\ oo_pc = "scan"
    /\ classes = <<>> /\ parents = EmptyMap
    /\ oo_todo = <<>> /\ oo_root = "" /\ oo_cls = "" /\ oo_seen = {} /\ oo_acc = 0
    /\ oo_depth = EmptyMap /\ oo_errors = {} /\ max_depth = 0
    /\ IdleScan /\ IdleFan /\ IdleHal /\ IdleTm /\ IdleSz /\ IdleAp

\* Lines 18-42: the loop over the matches of class_re.
ScanClasses ==
    /\ oo_pc = "scan"
    /\ classes' = ClassOrder(oo_decls)
    /\ parents' = ParentMap(oo_decls)
    /\ oo_todo' = ClassOrder(oo_decls)
    /\ oo_pc' = "loop"
    /\ UNCHANGED <<oo_decls, oo_root, oo_cls, oo_seen, oo_acc, oo_depth, oo_errors,
                   max_depth, scanVars, fanVars, halVars, tmVars, szVars, apVars>>

\* Lines 61-63: the loop takes its next class c and calls depth_of(c).
CallDepthOf ==
    /\ oo_pc = "loop"
    /\ oo_todo # <<>>
    /\ oo_root' = Head(oo_todo)
    /\ oo_cls' = Head(oo_todo)
    /\ oo_todo' = Tail(oo_todo)
    /\ oo_seen' = {}
    /\ oo_acc' = 0
    /\ oo_pc' = "walk"
    /\ UNCHANGED <<oo_decls, classes, parents, oo_depth, oo_errors, max_depth,
                   scanVars, fanVars, halVars, tmVars, szVars, apVars>>

\* Lines 63-65: depth_of(c) returned d.
ReturnDepth(d) ==
    /\ oo_depth' = [x \in DOMAIN oo_depth \cup {oo_root} |->
                       IF x = oo_root THEN d ELSE oo_depth[x]]
    /\ max_depth' = IF d > max_depth THEN d ELSE max_depth
    /\ oo_pc' = "loop"
    /\ UNCHANGED <<oo_cls, oo_seen, oo_acc, oo_errors>>

\* Lines 49-58: one invocation of depth_of.  An invocation nested deeper than the
\* interpreter allows raises RecursionError, which line 66 catches.
DepthOf ==
    /\ oo_pc = "walk"
    /\ IF oo_acc >= RecursionLimit
       THEN /\ oo_errors' = oo_errors \cup {oo_root}
            /\ oo_pc' = "loop"
            /\ UNCHANGED <<oo_cls, oo_seen, oo_acc, oo_depth, max_depth>>
       ELSE IF AlreadySeen(oo_cls, oo_seen)
       THEN ReturnDepth(oo_acc)
       ELSE IF IsRoot(oo_cls, ParentsGet(oo_cls))
       THEN ReturnDepth(oo_acc + 1)
       ELSE /\ oo_seen' = oo_seen \cup {oo_cls}
            /\ oo_cls' = ParentsGet(oo_cls)
            /\ oo_acc' = oo_acc + 1
            /\ UNCHANGED <<oo_pc, oo_depth, oo_errors, max_depth>>
    /\ UNCHANGED <<oo_decls, classes, parents, oo_todo, oo_root, scanVars, fanVars, halVars, tmVars, szVars, apVars>>

\* Lines 61-74: the loop is over and the function returns.
ReturnOO ==
    /\ oo_pc = "loop"
    /\ oo_todo = <<>>
    /\ oo_pc' = "done"
    /\ UNCHANGED <<oo_decls, classes, parents, oo_todo, oo_root, oo_cls, oo_seen,
                   oo_acc, oo_depth, oo_errors, max_depth, scanVars, fanVars, halVars, tmVars, szVars, apVars>>

NextOO == ScanClasses \/ CallDepthOf \/ DepthOf \/ ReturnOO

\* The function runs on one thread, from its first line to its return.
SpecOO == InitOO /\ [][NextOO]_vars /\ WF_vars(NextOO)

\* The classes on the parent chain of c: c, its parent, its parent's parent, ...
RECURSIVE Ancestors(_, _)
Ancestors(c, k) ==
    IF k = 0 \/ IsRoot(c, ParentsGet(c)) THEN {c}
    ELSE {c} \cup Ancestors(ParentsGet(c), k - 1)

ChainOf(c) == Ancestors(c, Cardinality(ParentNames))

C7_WalkBounded ==
    /\ oo_errors = {}
    /\ oo_pc = "walk" => oo_acc = Cardinality(oo_seen) /\ oo_seen \subseteq ParentNames
    /\ \A c \in DOMAIN oo_depth :
        /\ ParentsGet(c) = c => oo_depth[c] = 1
        /\ oo_depth[c] = Cardinality(ChainOf(c))
        /\ oo_depth[c] >= 1 /\ oo_depth[c] <= Cardinality(ParentNames)

\* C7: the depth walk ends for every parent map, cycles included: no walk runs into
\* the recursion limit, every invocation but the last adds a new class to seen, a
\* class that is its own parent has depth 1, the depth of a class is the number of
\* distinct classes on its parent chain (so the walk around a cycle stops when a
\* class comes up again, which adds 0), and compute_oo_metrics returns.
C7_DepthWalkTerminates == []C7_WalkBounded /\ <>(oo_pc = "done")

\* C7 happens: the walks are over for a file that declares a two-class cycle and a
\* class that is its own parent.
C7_Witness ==
    /\ oo_pc = "done"
    /\ \E a, b, c \in DOMAIN oo_depth :
        /\ a # b
        /\ ParentsGet(a) = b /\ ParentsGet(b) = a
        /\ ParentsGet(c) = c
        /\ oo_depth[a] = 2 /\ oo_depth[b] = 2 /\ oo_depth[c] = 1

(***************************************************************************)
(* halstead.py: halstead_metrics.                                          *)
(*                                                                         *)
(* The floating-point results are modelled as the exact real numbers they  *)
(* approximate: [num, den, base] is (num / den) * log2(base), and a        *)
(* rational number has base 2.  Rounding is not modelled.                  *)
(***************************************************************************)
OperatorToks == {"if", "==", "+"}
OperandToks == {"x", "y"}

Num(k) == [num |-> k, den |-> 1, base |-> 2]

IsPow2(n) == \E k \in 0..n : 2 ^ k = n
Exp2(n) == CHOOSE k \in 0..n : 2 ^ k = n

\* math.log2(n) for n >= 1.
Log2(n) == IF IsPow2(n) THEN Num(Exp2(n)) ELSE [num |-> 1, den |-> 1, base |-> n]

\* a / b on integers, b # 0.
Div(a, b) == [num |-> a, den |-> b, base |-> 2]

\* a * b, one of the two a rational number.
Times(a, b) ==
    [num |-> a.num * b.num, den |-> a.den * b.den,
     base |-> IF a.base = 2 THEN b.base ELSE a.base]

\* len(set(xs)).
Distinct(xs) == Cardinality({xs[k] : k \in 1..Len(xs)})

\* Line 25: volume = N * math.log2(n) if n > 1 else 0.
VolumeOfLength(N, n) == IF N > 1 THEN Times(Num(N), Log2(N)) ELSE Num(0)

Volume(N, n) == IF n > 1 THEN Times(Num(N), Log2(n)) ELSE Num(0)

\* Line 28: difficulty = (n1 / 2) * (N2 / n2).
Difficulty(n1, n2, N2) == Times(Div(n1, 2), Div(N2, n2))

\* Lines 3-38.
HalsteadMetrics(ops, oprs) ==
    LET n1 == Distinct(ops)
        n2 == Distinct(oprs)
        N1 == Len(ops)
        N2 == Len(oprs)
        n == n1 + n2
        N == N1 + N2
    IN  IF n = 0 \/ n2 = 0
        THEN [n1 |-> n1, n2 |-> n2, N1 |-> N1, N2 |-> N2,
              Vocabulary |-> n, ProgramLength |-> N,
              Volume |-> Num(0), Difficulty |-> Num(0), Effort |-> Num(0),
              BasicInformation |-> Num(0)]
        ELSE [n1 |-> n1, n2 |-> n2, N1 |-> N1, N2 |-> N2,
              Vocabulary |-> n, ProgramLength |-> N,
              Volume |-> Volume(N, n),
              Difficulty |-> Difficulty(n1, n2, N2),
              Effort |-> Times(Difficulty(n1, n2, N2), Volume(N, n)),
              BasicInformation |-> Volume(N, n)]

InitHal ==
    /\ \E k \in 0..MaxTokens : operators \in [1..k -> OperatorToks]
    /\ \E k \in 0..MaxTokens : operands \in [1..k -> OperandToks]
    /\ hal_res = NoResult
    /\ IdleScan /\ IdleFan /\ IdleOO /\ IdleTm /\ IdleSz /\ IdleAp

CallHalsteadMetrics ==
    /\ hal_res = NoResult
    /\ hal_res' = HalsteadMetrics(operators, operands)
    /\ UNCHANGED <<operators, operands, scanVars, fanVars, ooVars, tmVars, szVars, apVars>>

NextHal == CallHalsteadMetrics

SpecHal == InitHal /\ [][NextHal]_vars

\* v = (p / q) * log2(b), for q # 0 and b >= 1.
IsValue(v, p, q, b) ==
    IF IsPow2(b)
    THEN v.base = 2 /\ v.num * q = p * Exp2(b) * v.den
    ELSE \/ p = 0 /\ v.num = 0
         \/ v.base = b /\ v.num * q = p * v.den

SetOf(xs) == {xs[k] : k \in 1..Len(xs)}

\* The counts the results are defined from.
C8_Counts ==
    /\ hal_res.n1 = Cardinality(SetOf(operators))
    /\ hal_res.n2 = Cardinality(SetOf(operands))
    /\ hal_res.N1 = Len(operators)
    /\ hal_res.N2 = Len(operands)
    /\ hal_res.Vocabulary = hal_res.n1 + hal_res.n2
    /\ hal_res.ProgramLength = hal_res.N1 + hal_res.N2

\* C8 as amended: the counts are as stated; when there is at least one operand,
\* Volume = N*log2(n), Difficulty = (n1/2)*(N2/n2) and Effort = Difficulty*Volume;
\* when there is none, Volume, Difficulty and Effort are 0.  The worked example
\* gives n1=2, n2=2, N1=3, N2=2, n=4, N=5, Volume=10, Difficulty=1, Effort=10.
C8_HalsteadFormulas ==
    hal_res # NoResult
        => /\ C8_Counts
           /\ hal_res.n2 > 0 =>
                /\ IsValue(hal_res.Volume, hal_res.ProgramLength, 1, hal_res.Vocabulary)
                /\ IsValue(hal_res.Difficulty, hal_res.n1 * hal_res.N2, 2 * hal_res.n2, 2)
                /\ IsValue(hal_res.Effort,
                           hal_res.n1 * hal_res.N2 * hal_res.ProgramLength,
                           2 * hal_res.n2, hal_res.Vocabulary)
           /\ hal_res.n2 = 0 =>
                /\ IsValue(hal_res.Volume, 0, 1, 2)
                /\ IsValue(hal_res.Difficulty, 0, 1, 2)
                /\ IsValue(hal_res.Effort, 0, 1, 2)
           /\ (operators = <<"if", "if", "==">> /\ operands = <<"x", "y">>) =>
                /\ hal_res.n1 = 2 /\ hal_res.n2 = 2 /\ hal_res.N1 = 3 /\ hal_res.N2 = 2
                /\ hal_res.Vocabulary = 4 /\ hal_res.ProgramLength = 5
                /\ IsValue(hal_res.Volume, 10, 1, 2)
                /\ IsValue(hal_res.Difficulty, 1, 1, 2)
                /\ IsValue(hal_res.Effort, 10, 1, 2)

\* C8 happens: the call was made on the worked example.
C8_Witness ==
    /\ hal_res # NoResult
    /\ operators = <<"if", "if", "==">>
    /\ operands = <<"x", "y">>
    /\ hal_res.Volume.num = 10 * hal_res.Volume.den

\* C8 as stated: the counts, and Volume = N*log2(n), Difficulty = (n1/2)*(N2/n2)
\* and Effort = Difficulty*Volume wherever the formula has a value (Volume for a
\* vocabulary that is not empty, the other two for at least one operand).
C8_AsStated ==
    hal_res # NoResult
        => /\ C8_Counts
           /\ hal_res.Vocabulary > 0 =>
                IsValue(hal_res.Volume, hal_res.ProgramLength, 1, hal_res.Vocabulary)
           /\ hal_res.n2 > 0 =>
                /\ IsValue(hal_res.Difficulty, hal_res.n1 * hal_res.N2, 2 * hal_res.n2, 2)
                /\ IsValue(hal_res.Effort,
                           hal_res.n1 * hal_res.N2 * hal_res.ProgramLength,
                           2 * hal_res.n2, hal_res.Vocabulary)

(***************************************************************************)
(* testing_metrics.py: compute_testing_metrics.  A path is a sequence of   *)
(* characters.                                                             *)
(***************************************************************************)
PathPool ==
    { <<"a", ".", "t", "e", "s", "t", ".", "t", "s">>,
      <<"a", ".", "t", "s">>,
      <<"b", ".", "S", "p", "e", "c", ".", "j", "s">>,
      <<"_", "_", "t", "e", "s", "t", "s", "_", "_", "/", "c">>,
      <<"t", "e", "s", "t", ".", "t", "s">>,
      <<"d", ".", "t", "e", "s", "t", "s", ".", "t", "s">>,
      <<"E", ".", "T", "E", "S", "T", ".", "J", "S">> }

\* Line 19: the three patterns; each matches one literal string.
test_patterns ==
    << <<".", "t", "e", "s", "t", ".">>,
       <<".", "s", "p", "e", "c", ".">>,
       <<"_", "_", "t", "e", "s", "t", "s", "_", "_">> >>

\* str.lower() on one character.
LowerChar(c) ==
    CASE c = "A" -> "a" [] c = "C" -> "c" [] c = "E" -> "e" [] c = "J" -> "j"
      [] c = "P" -> "p" [] c = "S" -> "s" [] c = "T" -> "t"
      [] OTHER -> c

\* Line 24: lower = p.lower().
LowerUnchanged(path) == path

Lower(path) == [k \in 1..Len(path) |-> LowerChar(path[k])]

\* re.search(pat, text) for a literal pattern: tried at each offset from the left.
RECURSIVE ReSearch(_, _, _)
ReSearch(pat, text, from) ==
    IF from + Len(pat) > Len(text) THEN FALSE
    ELSE IF SubSeq(text, from + 1, from + Len(pat)) = pat THEN TRUE
    ELSE ReSearch(pat, text, from + 1)

\* Line 25: any(re.search(pat, lower) for pat in test_patterns).
LooksLikeTest(path) ==
    \E k \in 1..Len(test_patterns) : ReSearch(test_patterns[k], Lower(path), 0)

InitTm ==
    /\ \E k \in 0..MaxPaths : file_paths \in [1..k -> PathPool]
    /\ tm_i = 0 /\ test_count = 0 /\ src_count = 0
    /\ tm_res = NoResult
    /\ IdleScan /\ IdleFan /\ IdleOO /\ IdleHal /\ IdleSz /\ IdleAp

\* Lines 12-17: the list is empty.
ReturnNoPaths ==
    /\ tm_res = NoResult
    /\ file_paths = <<>>
    /\ tm_res' = [TestFiles |-> 0, SourceFiles |-> 0, TestToSourceRatio |-> Num(0)]
    /\ UNCHANGED <<file_paths, tm_i, test_count, src_count,
                   scanVars, fanVars, ooVars, halVars, szVars, apVars>>

\* Lines 23-28: the loop body for the next path.
ClassifyPath ==
    /\ tm_res = NoResult
    /\ tm_i < Len(file_paths)
    /\ tm_i' = tm_i + 1
    /\ IF LooksLikeTest(file_paths[tm_i + 1])
       THEN test_count' = test_count + 1 /\ UNCHANGED src_count
       ELSE src_count' = src_count + 1 /\ UNCHANGED test_count
    /\ UNCHANGED <<file_paths, tm_res, scanVars, fanVars, ooVars, halVars, szVars, apVars>>

\* Lines 30-35.
ReturnTestingMetrics ==
    /\ tm_res = NoResult
    /\ file_paths # <<>>
    /\ tm_i = Len(file_paths)
    /\ tm_res' = [TestFiles |-> test_count, SourceFiles |-> src_count,
                  TestToSourceRatio |-> Div(test_count, Max(1, src_count))]
    /\ UNCHANGED <<file_paths, tm_i, test_count, src_count,
                   scanVars, fanVars, ooVars, halVars, szVars, apVars>>

NextTm == ReturnNoPaths \/ ClassifyPath \/ ReturnTestingMetrics

SpecTm == InitTm /\ [][NextTm]_vars

\* Whether the lowercased path contains the string made of the characters cs.
ContainsLowered(path, cs) ==
    \E o \in 0..Len(path) :
        /\ o + Len(cs) <= Len(path)
        /\ \A k \in 1..Len(cs) : LowerChar(path[o + k]) = cs[k]

IsTestPath(path) ==
    \/ ContainsLowered(path, <<".", "t", "e", "s", "t", ".">>)
    \/ ContainsLowered(path, <<".", "s", "p", "e", "c", ".">>)
    \/ ContainsLowered(path, <<"_", "_", "t", "e", "s", "t", "s", "_", "_">>)

\* C9: every path is counted once, as a test when its lowercased form contains
\* ".test.", ".spec." or "__tests__" and as a source otherwise; the ratio is
\* TestFiles / max(1, SourceFiles), which is 1/3 for one test and three sources.
C9_TestClassification ==
    tm_res # NoResult
        => /\ tm_res.TestFiles + tm_res.SourceFiles = Len(file_paths)
           /\ tm_res.TestFiles
                  = Cardinality({k \in 1..Len(file_paths) : IsTestPath(file_paths[k])})
           /\ tm_res.SourceFiles
                  = Cardinality({k \in 1..Len(file_paths) : ~IsTestPath(file_paths[k])})
           /\ tm_res.TestToSourceRatio.base = 2
           /\ tm_res.TestToSourceRatio.num * Max(1, tm_res.SourceFiles)
                  = tm_res.TestFiles * tm_res.TestToSourceRatio.den
           /\ (tm_res.TestFiles = 1 /\ tm_res.SourceFiles = 3)
                  => 3 * tm_res.TestToSourceRatio.num = tm_res.TestToSourceRatio.den

\* C9 happens: one test file, whose name has capital letters, and three source
\* files were classified.
C9_Witness ==
    /\ tm_res # NoResult
    /\ tm_res.TestFiles = 1 /\ tm_res.SourceFiles = 3
    /\ \E k \in 1..Len(file_paths) :
        IsTestPath(file_paths[k]) /\ Lower(file_paths[k]) # file_paths[k]

(***************************************************************************)
(* size_metrics.py: compute_size_metrics.  The text comes as its lines,    *)
(* code.splitlines(), each a sequence of characters.                       *)
(***************************************************************************)
Space == " "

LinePool ==
    { <<>>,
      <<" ", " ">>,
      <<"x">>,
      <<"/", "/", " ", "c">>,
      <<"/", "*", " ", "c", " ", "*", "/">>,
      <<"/", "*", " ", "c">>,
      <<"c", " ", "*", "/">>,
      <<" ", "/", "*", " ", "c", " ">>,
      <<"x", " ", "/", "*", " ", "c">>,
      <<"/", "*", "/">> }

\* str.strip(): the line without its leading and trailing white space.
RECURSIVE StripLeft(_)
StripLeft(line) ==
    IF line # <<>> /\ Head(line) = Space THEN StripLeft(Tail(line)) ELSE line

RECURSIVE StripRight(_)
StripRight(line) ==
    IF line # <<>> /\ line[Len(line)] = Space
    THEN StripRight(SubSeq(line, 1, Len(line) - 1))
    ELSE line

Strip(line) == StripRight(StripLeft(line))

\* str.startswith(two) and `two in str`, for a two-character string two.
StartsWith(line, two) == Len(line) >= 2 /\ SubSeq(line, 1, 2) = two
Contains(line, two) == \E k \in 1..(Len(line) - 1) : SubSeq(line, k, k + 1) = two

\* Line 29: a line inside a block comment ends it when it holds the closing mark.
EndsBlockNever(stripped) == FALSE

EndsBlock(stripped) == Contains(stripped, <<Star, Slash>>)

\* Line 39: a line that opens a block comment leaves it open.
OpensBlock(stripped) == ~Contains(stripped, <<Star, Slash>>)

InitSz ==
    /\ \E k \in 0..MaxLines : sz_lines \in [1..k -> LinePool]
    /\ sz_i = 0 /\ in_block = FALSE /\ blank_lines = 0 /\ comment_lines = 0
    /\ total_len = 0
    /\ sz_res = NoResult
    /\ IdleScan /\ IdleFan /\ IdleOO /\ IdleHal /\ IdleTm /\ IdleAp

\* Lines 19-41: the loop body for the next line.
ScanLine ==
    /\ sz_res = NoResult
    /\ sz_i < Len(sz_lines)
    /\ sz_i' = sz_i + 1
    /\ LET line == sz_lines[sz_i + 1]
           stripped == Strip(line)
       IN  /\ total_len' = total_len + Len(line)
           /\ IF stripped = <<>>
              THEN /\ blank_lines' = blank_lines + 1
                   /\ UNCHANGED <<comment_lines, in_block>>
              ELSE IF in_block
              THEN /\ comment_lines' = comment_lines + 1
                   /\ in_block' = IF EndsBlock(stripped) THEN FALSE ELSE in_block
                   /\ UNCHANGED blank_lines
              ELSE IF StartsWith(stripped, <<Slash, Slash>>)
              THEN /\ comment_lines' = comment_lines + 1
                   /\ UNCHANGED <<blank_lines, in_block>>
              ELSE IF StartsWith(stripped, <<Slash, Star>>)
              THEN /\ comment_lines' = comment_lines + 1
                   /\ in_block' = IF OpensBlock(stripped) THEN TRUE ELSE in_block
                   /\ UNCHANGED blank_lines
              ELSE UNCHANGED <<blank_lines, comment_lines, in_block>>
    /\ UNCHANGED <<sz_lines, sz_res, scanVars, fanVars, ooVars, halVars, tmVars, apVars>>

\* Lines 43-52.
ReturnSizeMetrics ==
    /\ sz_res = NoResult
    /\ sz_i = Len(sz_lines)
    /\ sz_res' = [LOC |-> Len(sz_lines),
                  SLOC |-> Len(sz_lines) - comment_lines - blank_lines,
                  CommentLines |-> comment_lines,
                  BlankLines |-> blank_lines,
                  AvgLineLength |-> IF Len(sz_lines) > 0
                                    THEN Div(total_len, Len(sz_lines))
                                    ELSE Num(0)]
    /\ UNCHANGED <<sz_lines, sz_i, in_block, blank_lines, comment_lines, total_len,
                   scanVars, fanVars, ooVars, halVars, tmVars, apVars>>

NextSz == ScanLine \/ ReturnSizeMetrics

SpecSz == InitSz /\ [][NextSz]_vars

\* The line the next step of the scan takes, stripped.
sz_next == Strip(sz_lines[sz_i + 1])
sz_scans == sz_i' = sz_i + 1

\* Each line scanned adds one to exactly one of the three counts (blank, comment,
\* source: the lines counted as neither of the first two).
C10_Partition ==
    /\ blank_lines + comment_lines <= sz_i
    /\ sz_res # NoResult
        => /\ sz_res.LOC = Len(sz_lines)
           /\ sz_res.LOC = sz_res.SLOC + sz_res.CommentLines + sz_res.BlankLines
           /\ sz_res.SLOC >= 0
           /\ sz_res.CommentLines = comment_lines /\ sz_res.BlankLines = blank_lines

C10_OneCountPerLine ==
    sz_scans =>
        /\ blank_lines' + comment_lines' \in
               {blank_lines + comment_lines, blank_lines + comment_lines + 1}
        /\ blank_lines' >= blank_lines /\ comment_lines' >= comment_lines
        /\ blank_lines' = blank_lines + 1 <=> sz_next = <<>>

\* Block-comment mode is entered by a line that starts with the opening mark and has
\* no closing mark, and left by the first line that holds the closing mark.
C10_ModeSwitches ==
    sz_scans =>
        /\ (~in_block /\ in_block')
               <=> /\ ~in_block
                   /\ StartsWith(sz_next, <<Slash, Star>>)
                   /\ ~Contains(sz_next, <<Star, Slash>>)
        /\ (in_block /\ ~in_block') <=> (in_block /\ Contains(sz_next, <<Star, Slash>>))

\* C10 as amended: every line is counted as exactly one of blank, comment or source,
\* so LOC = SLOC + CommentLines + BlankLines with SLOC >= 0; block-comment mode is
\* entered by a line that starts with "/*" and has no "*/" on it, stays on for the
\* following lines and is left by the first later line containing "*/"; a line
\* scanned while the mode is on is counted as a comment line unless it is blank, and
\* a blank one is counted as a blank line.
C10_SizeScan ==
    /\ []C10_Partition
    /\ [][C10_OneCountPerLine]_vars
    /\ [][C10_ModeSwitches]_vars
    /\ [][(sz_scans /\ in_block /\ sz_next # <<>>)
              => comment_lines' = comment_lines + 1]_vars
    /\ [][(sz_scans /\ in_block /\ sz_next = <<>>)
              => (blank_lines' = blank_lines + 1 /\ comment_lines' = comment_lines
                  /\ in_block')]_vars

\* C10 happens: a block comment was opened, a blank line and a line of text were
\* scanned inside it, and the scan returned.
C10_Witness ==
    /\ sz_res # NoResult
    /\ Len(sz_lines) = 3
    /\ StartsWith(Strip(sz_lines[1]), <<Slash, Star>>)
    /\ ~Contains(Strip(sz_lines[1]), <<Star, Slash>>)
    /\ Strip(sz_lines[2]) = <<>>
    /\ Strip(sz_lines[3]) # <<>>
    /\ sz_res.CommentLines = 2 /\ sz_res.BlankLines = 1 /\ sz_res.SLOC = 0

\* C10 as stated: the partition and the mode switches as above, and every line
\* scanned while block-comment mode is on is counted as a comment line.
C10_AsStated ==
    /\ []C10_Partition
    /\ [][C10_OneCountPerLine]_vars
    /\ [][C10_ModeSwitches]_vars
    /\ [][(sz_scans /\ in_block) => comment_lines' = comment_lines + 1]_vars

(***************************************************************************)
(* main.py: analyze_project.                                               *)
(*                                                                         *)
(* A file is what the calls made on it give: whether open() succeeds, the  *)
(* operators and operands classify_tokens returns, the pair                *)
(* compute_live_vars returns and the values of the dict compute_fan_in_out *)
(* returns.  compute_size_metrics returns a dict that is never empty for   *)
(* every text.                                                             *)
(***************************************************************************)
FilePlain ==
    [readable |-> TRUE, ops |-> <<"if", "==">>, oprs |-> <<"x">>, lv |-> 1, avg_lv |-> 3,
     funcs |-> << [fan_in |-> 1, fan_out |-> 2, information_flow |-> 4],
                  [fan_in |-> 0, fan_out |-> 1, information_flow |-> 0] >>]
FileEmpty ==
    [readable |-> TRUE, ops |-> <<>>, oprs |-> <<>>, lv |-> 0, avg_lv |-> 0,
     funcs |-> <<>>]
FileUnreadable ==
    [readable |-> FALSE, ops |-> <<>>, oprs |-> <<>>, lv |-> 0, avg_lv |-> 0,
     funcs |-> <<>>]

FilePool == {FilePlain, FileEmpty, FileUnreadable}

\* `not d` for a dict d: a dict is false only when it has no key.
IsFalsy(d) == DOMAIN d = {}

RECURSIVE Concat(_)
Concat(lists) == IF lists = <<>> THEN <<>> ELSE Head(lists) \o Concat(Tail(lists))

RECURSIVE Sum(_)
Sum(xs) == IF xs = <<>> THEN 0 ELSE Head(xs) + Sum(Tail(xs))

Field(recs, f) == [k \in 1..Len(recs) |-> recs[k][f]]

InitAp ==
    /\ \E k \in 0..MaxDirs :
        directories \in [1..k -> UNION {[1..j -> FilePool] : j \in 0..MaxFiles}]
    /\ all_files = <<>> /\ ap_pc = "discover" /\ ap_i = 0
    /\ file_count = 0 /\ all_ops = <<>> /\ all_oprs = <<>>
    /\ total_live_vars = 0 /\ total_avg_live_metric = 0
    /\ info_flow_values = <<>> /\ fan_in_values = <<>> /\ fan_out_values = <<>>
    /\ size_totals = Unbound /\ warnings = <<>> /\ info_flow_results = Unbound
    /\ ap_out = NoResult
    /\ IdleScan /\ IdleFan /\ IdleOO /\ IdleHal /\ IdleTm /\ IdleSz

\* Lines 21-39: the accumulators are set (the size totals are not among them), the
\* files of every directory are gathered, and the call returns None without any.
Discover ==
    /\ ap_pc = "discover"
    /\ all_files' = Concat(directories)
    /\ IF Concat(directories) = <<>>
       THEN ap_pc' = "done" /\ ap_out' = [kind |-> "return", value |-> None]
       ELSE ap_pc' = "loop" /\ UNCHANGED ap_out
    /\ UNCHANGED <<directories, ap_i, file_count, all_ops, all_oprs, total_live_vars,
                   total_avg_live_metric, info_flow_values, fan_in_values,
                   fan_out_values, size_totals, warnings, info_flow_results,
                   scanVars, fanVars, ooVars, halVars, tmVars, szVars>>

\* Lines 41-94: one turn of the loop.  open() raises for a file that cannot be read;
\* line 61 raises UnboundLocalError when total_loc has no value; line 93 catches
\* both, and what the turn added before stays.
ProcessFile ==
    /\ ap_pc = "loop"
    /\ ap_i < Len(all_files)
    /\ LET file == all_files[ap_i + 1]
       IN  /\ ap_i' = ap_i + 1
           /\ file_count' = file_count + 1
           /\ IF ~file.readable
              THEN /\ warnings' = Append(warnings, ap_i + 1)
                   /\ UNCHANGED <<all_ops, all_oprs, total_live_vars,
                                  total_avg_live_metric, size_totals,
                                  info_flow_values, fan_in_values, fan_out_values>>
              ELSE /\ all_ops' = all_ops \o file.ops
                   /\ all_oprs' = all_oprs \o file.oprs
                   /\ total_live_vars' = total_live_vars + file.lv
                   /\ total_avg_live_metric' = total_avg_live_metric + file.avg_lv
                   /\ IF size_totals = Unbound
                      THEN /\ warnings' = Append(warnings, ap_i + 1)
                           /\ UNCHANGED <<size_totals, info_flow_values,
                                          fan_in_values, fan_out_values>>
                      ELSE /\ size_totals' = size_totals + 1
                           /\ info_flow_values'
                                  = info_flow_values \o Field(file.funcs, "information_flow")
                           /\ fan_in_values' = fan_in_values \o Field(file.funcs, "fan_in")
                           /\ fan_out_values'
                                  = fan_out_values \o Field(file.funcs, "fan_out")
                           /\ UNCHANGED warnings
    /\ ap_pc' = IF ap_i + 1 = Len(all_files) THEN "aggregate" ELSE "loop"
    /\ UNCHANGED <<directories, all_files, info_flow_results, ap_out,
                   scanVars, fanVars, ooVars, halVars, tmVars, szVars>>

\* Lines 108-120.
InfoFlowResults ==
    [AvgInformationFlow |-> Div(Sum(info_flow_values), Max(1, Len(info_flow_values))),
     TotalFanIn |-> Sum(fan_in_values),
     TotalFanOut |-> Sum(fan_out_values),
     AvgFanIn |-> Div(Sum(fan_in_values), Max(1, Len(fan_in_values))),
     AvgFanOut |-> Div(Sum(fan_out_values), Max(1, Len(fan_out_values)))]

\* Lines 96-176: after the loop.  Line 123 reads total_avg_line_length, and raises
\* UnboundLocalError when it has no value; nothing catches it.
Aggregate ==
    /\ ap_pc = "aggregate"
    /\ ap_pc' = "done"
    /\ IF file_count = 0
       THEN ap_out' = [kind |-> "return", value |-> None] /\ UNCHANGED info_flow_results
       ELSE IF IsFalsy(HalsteadMetrics(all_ops, all_oprs))
       THEN ap_out' = [kind |-> "return", value |-> None] /\ UNCHANGED info_flow_results
       ELSE /\ info_flow_results' = InfoFlowResults
            /\ IF size_totals = Unbound
               THEN ap_out' = [kind |-> "raise", error |-> "UnboundLocalError"]
               ELSE ap_out' = [kind |-> "return",
                               value |-> [halstead |-> HalsteadMetrics(all_ops, all_oprs),
                                          info_flow |-> InfoFlowResults,
                                          live_vars |->
                                              [TotalLiveVariables |-> total_live_vars,
                                               AvgLiveVariablesPerFile |->
                                                   Div(total_avg_live_metric,
                                                       Max(1, file_count))]]]
    /\ UNCHANGED <<directories, all_files, ap_i, file_count, all_ops, all_oprs,
                   total_live_vars, total_avg_live_metric, info_flow_values,
                   fan_in_values, fan_out_values, size_totals, warnings,
                   scanVars, fanVars, ooVars, halVars, tmVars, szVars>>

NextAp == Discover \/ ProcessFile \/ Aggregate

SpecAp == InitAp /\ [][NextAp]_vars

\* C3: when the analysis of some file fails, the run does not abort: every file is
\* still taken by the loop and analyze_project returns an aggregate result instead
\* of raising.
C3_FailedFileSkipped ==
    (ap_pc = "done" /\ warnings # <<>>)
        => /\ ap_i = Len(all_files)
           /\ ap_out.kind = "return"
           /\ ap_out.value # None

\* C4: analyze_project returns None when no file is discovered, and when files are
\* discovered but the pooled operators and operands are empty.
C4_NoMetricsOutcome ==
    (ap_pc = "done" /\ (all_files = <<>> \/ (all_ops = <<>> /\ all_oprs = <<>>)))
        => ap_out = [kind |-> "return", value |-> None]

\* The functions compute_fan_in_out detects in the first k discovered files, in order.
RECURSIVE FuncsOfFiles(_)
FuncsOfFiles(k) ==
    IF k = 0 THEN <<>> ELSE FuncsOfFiles(k - 1) \o all_files[k].funcs

\* C11: once every file is processed, the information-flow result is built from the
\* values of every detected function of every file: the totals are the sums of
\* fan_in and fan_out over all of them, and the averages are the pooled sums over
\* max(1, number of pooled values).
C11_PooledInfoFlow ==
    (ap_pc = "done" /\ all_files # <<>>)
        => LET fs == FuncsOfFiles(Len(all_files))
               n  == Max(1, Len(fs))
           IN  /\ info_flow_results # Unbound
               /\ Len(info_flow_values) = Len(fs)
               /\ info_flow_results.TotalFanIn = Sum(Field(fs, "fan_in"))
               /\ info_flow_results.TotalFanOut = Sum(Field(fs, "fan_out"))
               /\ info_flow_results.AvgInformationFlow
                      = Div(Sum(Field(fs, "information_flow")), n)
               /\ info_flow_results.AvgFanIn = Div(Sum(Field(fs, "fan_in")), n)
               /\ info_flow_results.AvgFanOut = Div(Sum(Field(fs, "fan_out")), n)

\* What the first k discovered files add before any of their steps can fail: the
\* tokens and the live-variable sums of the files open() succeeds on.
RECURSIVE OpsOfFiles(_)
OpsOfFiles(k) ==
    IF k = 0 THEN <<>>
    ELSE OpsOfFiles(k - 1) \o (IF all_files[k].readable THEN all_files[k].ops ELSE <<>>)

RECURSIVE OprsOfFiles(_)
OprsOfFiles(k) ==
    IF k = 0 THEN <<>>
    ELSE OprsOfFiles(k - 1) \o (IF all_files[k].readable THEN all_files[k].oprs ELSE <<>>)

RECURSIVE LiveVarsOfFiles(_)
LiveVarsOfFiles(k) ==
    IF k = 0 THEN 0
    ELSE LiveVarsOfFiles(k - 1) + (IF all_files[k].readable THEN all_files[k].lv ELSE 0)

RECURSIVE AvgLiveOfFiles(_)
AvgLiveOfFiles(k) ==
    IF k = 0 THEN 0
    ELSE AvgLiveOfFiles(k - 1)
             + (IF all_files[k].readable THEN all_files[k].avg_lv ELSE 0)

\* The part of C12 about the loop: what a file added before its analysis raised
\* stays in the accumulators, and every file taken is counted, failed or not.
C12_NoRollback ==
    (ap_pc \in {"loop", "aggregate", "done"})
        => /\ all_ops = OpsOfFiles(ap_i)
           /\ all_oprs = OprsOfFiles(ap_i)
           /\ total_live_vars = LiveVarsOfFiles(ap_i)
           /\ total_avg_live_metric = AvgLiveOfFiles(ap_i)
           /\ file_count = ap_i
           /\ (ap_pc # "loop" /\ all_files # <<>>) => file_count = Len(all_files)

\* C12: nothing is rolled back when a file's analysis raises part-way, the failed
\* file is counted, and after the loop file_count, the number of discovered files,
\* is the divisor of the per-file averages analyze_project reports.
C12_CountedAndDivided ==
    /\ C12_NoRollback
    /\ (ap_pc = "done" /\ warnings # <<>>)
           => /\ ap_out.kind = "return"
              /\ ap_out.value # None
              /\ ap_out.value.live_vars.AvgLiveVariablesPerFile
                     = Div(total_avg_live_metric, Max(1, Len(all_files)))

====
